---- MODULE Spec2Model ----
(***************************************************************************)
(* Model of the agents.toml parser: parse.ts (parse, parseOrThrow,         *)
(* parseDependency, parseRegistryString, extractGitRef) over the zod       *)
(* schemas of schema.ts.                                                   *)
(*                                                                         *)
(* Strings that the code inspects character by character (field values,    *)
(* aliases) are sequences of one-character strings.  Field names, agent    *)
(* ids and fixed message texts are TLA+ strings.                           *)
(***************************************************************************)
EXTENDS Integers, Sequences, FiniteSets, TLC

\* ------------------------------------------------------------------ bounds

\* Longest registry-shorthand string drawn as a dependency declaration.
MaxRegLen == 6

\* ----------------------------------------------------------------- strings

Range(f) == {f[i] : i \in DOMAIN f}

\* Letters and digits that occur in the modelled inputs ([a-zA-Z0-9]).
Alnum ==
    {"a", "b", "c", "d", "e", "g", "h", "i", "l", "m", "n", "o", "p", "r", "s",
     "t", "u", "v", "x", "0", "1", "2"}

\* Characters String.prototype.trim() removes.
Whitespace == {" ", "\n", "\t"}

\* Characters the regular-expression dot does not match.
LineTerminator == {"\n", "\r"}

SubStr(s, from, to) == [i \in 1..(to - from + 1) |-> s[from + i - 1]]

\* s.trim()
TrimStart(s) ==
    IF \A i \in 1..Len(s) : s[i] \in Whitespace THEN Len(s) + 1
    ELSE CHOOSE i \in 1..Len(s) :
            s[i] \notin Whitespace /\ \A j \in 1..(i - 1) : s[j] \in Whitespace

TrimEnd(s) ==
    IF \A i \in 1..Len(s) : s[i] \in Whitespace THEN 0
    ELSE CHOOSE i \in 1..Len(s) :
            s[i] \notin Whitespace /\ \A j \in (i + 1)..Len(s) : s[j] \in Whitespace

Trim(s) ==
    IF TrimEnd(s) = 0 THEN <<>> ELSE SubStr(s, TrimStart(s), TrimEnd(s))

\* s.includes(c) for a one-character c
Includes(s, c) == \E i \in 1..Len(s) : s[i] = c

\* The function f as an explicit table of its values.
Tabulated(f) == f @@ <<>>

RECURSIVE SetToSeq(_)
SetToSeq(S) ==
    IF S = {} THEN <<>>
    ELSE LET x == CHOOSE y \in S : TRUE IN <<x>> \o SetToSeq(S \ {x})

RECURSIVE Flatten(_)
Flatten(ss) == IF ss = <<>> THEN <<>> ELSE Head(ss) \o Flatten(Tail(ss))

\* ------------------------------------------------------------ value trees

\* A node of the tree smol-toml returns, and of the values zod returns.
Undefined == [t |-> "undefined", s |-> <<>>, b |-> FALSE, kv |-> <<>>]
Str(chars) == [t |-> "string", s |-> chars, b |-> FALSE, kv |-> <<>>]
Bool(v) == [t |-> "boolean", s |-> <<>>, b |-> v, kv |-> <<>>]
Num == [t |-> "number", s |-> <<>>, b |-> FALSE, kv |-> <<>>]
Table(f) == [t |-> "object", s |-> <<>>, b |-> FALSE, kv |-> f]

\* obj[key], undefined when the key is not there
Field(v, k) == IF v.t = "object" /\ k \in DOMAIN v.kv THEN v.kv[k] ELSE Undefined

Has(v, k) == v.t = "object" /\ k \in DOMAIN v.kv

\* JavaScript truthiness of a node
Truthy(v) ==
    CASE v.t = "undefined" -> FALSE
      [] v.t = "string" -> v.s # <<>>
      [] v.t = "boolean" -> v.b
      [] OTHER -> TRUE

\* ------------------------------------------------------- messages, issues

\* A message or an issue path is a sequence of parts: fixed text (lit) or
\* text copied from the input (dyn).
Lit(text) == [lit |-> text, dyn |-> <<>>]
Dyn(chars) == [lit |-> "", dyn |-> chars]

Issue(path, message) == [path |-> path, message |-> message]

\* What a zod schema's _parse returns: a status, the value, the issues added.
Valid(v) == [status |-> "valid", value |-> v, issues |-> <<>>]
Dirty(v, issues) == [status |-> "dirty", value |-> v, issues |-> issues]
Aborted(issues) == [status |-> "aborted", value |-> Undefined, issues |-> issues]

InvalidType(expected, v, path) ==
    Aborted(<<Issue(path,
        IF v.t = "undefined" THEN <<Lit("Required")>>
        ELSE <<Lit("Expected "), Lit(expected), Lit(", received "), Lit(v.t)>>)>>)

MergeStatus(statuses) ==
    IF "aborted" \in statuses THEN "aborted"
    ELSE IF "dirty" \in statuses THEN "dirty" ELSE "valid"

\* ------------------------------------------------------ schema primitives

\* NonEmptyString: z.string().transform(trim).pipe(z.string().min(1))
NonEmptyString(v, path) ==
    IF v.t # "string" THEN InvalidType("string", v, path)
    ELSE IF Len(Trim(v.s)) >= 1 THEN Valid(Str(Trim(v.s)))
    ELSE Dirty(Str(Trim(v.s)), <<Issue(path, <<Lit("String cannot be empty")>>)>>)

\* NonEmptyString.optional()
OptionalNonEmptyString(v, path) ==
    IF v.t = "undefined" THEN Valid(Undefined) ELSE NonEmptyString(v, path)

\* The characters an alias must not contain.
AliasForbidden == <<"/", "\\", ".", ":">>

\* The key schema reduced to its transform: trimmed, nothing checked.
Alias_TrimOnly(key, path) == Valid(Str(Trim(key)))

\* Alias: trimmed, min(1), four refinements; every failed check adds an issue.
Alias(key, path) ==
    LET s == Trim(key)
        empty == IF Len(s) >= 1 THEN <<>>
                 ELSE <<Issue(path, <<Lit("Alias cannot be empty")>>)>>
        bad == [i \in 1..Len(AliasForbidden) |->
                   IF Includes(s, AliasForbidden[i])
                   THEN <<Issue(path, <<Lit("Alias cannot contain '"),
                                        Lit(AliasForbidden[i]), Lit("'")>>)>>
                   ELSE <<>>]
        issues == empty \o Flatten(bad)
    IN IF issues = <<>> THEN Valid(Str(s)) ELSE Dirty(Str(s), issues)

\* [a-zA-Z0-9_.-]
GithubRefChars == Alnum \cup {"_", ".", "-"}

\* /^[a-zA-Z0-9_.-]+\/[a-zA-Z0-9_.-]+$/.test(s)
GithubRefPattern(s) ==
    \E i \in 2..(Len(s) - 1) :
        /\ s[i] = "/"
        /\ \A j \in (1..Len(s)) \ {i} : s[j] \in GithubRefChars

\* GithubRef: z.string().regex(...), not trimmed
GithubRef(v, path) ==
    IF v.t # "string" THEN InvalidType("string", v, path)
    ELSE IF GithubRefPattern(v.s) THEN Valid(v)
    ELSE Dirty(v, <<Issue(path, <<Lit("Must be in format 'owner/repo'")>>)>>)

\* AgentId.options
AgentIdOptions == {"claude-code", "codex", "opencode"}

\* [a-zA-Z0-9_-]
RegistryChars == Alnum \cup {"_", "-"}

\* The ends j of the non-empty runs s[i..j] of characters of class C.
ClassRunEnds(s, i, C) == {j \in i..Len(s) : \A k \in i..j : s[k] \in C}

\* .+$ from position i
DotPlusToEnd(s, i) ==
    i <= Len(s) /\ \A k \in i..Len(s) : s[k] \notin LineTerminator

\* Where the name may start: at 1, or after an "@org/" prefix.
RegistryNameStarts(s) ==
    {1} \cup {e + 2 : e \in {j \in ClassRunEnds(s, 2, RegistryChars) :
                                /\ s[1] = "@"
                                /\ j + 1 <= Len(s)
                                /\ s[j + 1] = "/"}}

\* RegistryPattern.test(s): /^(@[a-zA-Z0-9_-]+\/)?[a-zA-Z0-9_-]+@.+$/
RegistryPattern(s) ==
    \E start \in RegistryNameStarts(s) :
        \E n \in ClassRunEnds(s, start, RegistryChars) :
            n + 1 <= Len(s) /\ s[n + 1] = "@" /\ DotPlusToEnd(s, n + 2)

\* The schema without its .regex(): any string is a registry dependency.
RegistryDependency_AnyString(v, path) ==
    IF v.t # "string" THEN InvalidType("string", v, path) ELSE Valid(v)

\* RegistryDependency: z.string().regex(RegistryPattern, ...), not trimmed
RegistryDependency(v, path) ==
    IF v.t # "string" THEN InvalidType("string", v, path)
    ELSE IF RegistryPattern(v.s) THEN Valid(v)
    ELSE Dirty(v, <<Issue(path, <<Lit("Must be in format '[@org/]name@version'")>>)>>)

\* An object schema without .strict(): keys outside the shape are stripped
\* and not reported.
MergeObject_NotStrict(v, path, keys, res) ==
    LET resOf(k) == res[CHOOSE i \in 1..Len(keys) : keys[i] = k]
        present == {k \in Range(keys) : resOf(k).value.t # "undefined"}
    IN [status |-> MergeStatus({res[i].status : i \in 1..Len(keys)}),
        value |-> Table([k \in present |-> resOf(k).value]),
        issues |-> Flatten([i \in 1..Len(keys) |-> res[i].issues])]

\* The result of a strict object from the results res of its keys.
MergeObject(v, path, keys, res) ==
    LET resOf(k) == res[CHOOSE i \in 1..Len(keys) : keys[i] = k]
        extra == DOMAIN v.kv \ Range(keys)
        extraSeq == SetToSeq(extra)
        unrecognized ==
            IF extra = {} THEN <<>>
            ELSE <<Issue(path, <<Lit("Unrecognized key(s) in object: ")>>
                               \o [i \in 1..Len(extraSeq) |-> Lit(extraSeq[i])])>>
        present == {k \in Range(keys) : resOf(k).value.t # "undefined"}
    IN [status |-> MergeStatus({res[i].status : i \in 1..Len(keys)}
                               \cup (IF extra = {} THEN {} ELSE {"dirty"})),
        value |-> Table([k \in present |-> resOf(k).value]),
        issues |-> Flatten([i \in 1..Len(keys) |-> res[i].issues])
                   \o unrecognized]

\* z.object(shape).strict() with the shape's keys in declaration order and
\* P(key, value, path) the key's schema.
StrictObject(v, path, keys, P(_, _, _)) ==
    IF v.t # "object" THEN InvalidType("object", v, path)
    ELSE MergeObject(v, path, keys,
            Tabulated([i \in 1..Len(keys) |->
                P(keys[i], Field(v, keys[i]), path \o <<Lit(keys[i])>>)]))

\* .refine(check, message) on a schema result: skipped when the inner parse
\* aborted, run (and reported) otherwise.
Refine(inner, path, passes, message) ==
    IF inner.status = "aborted" \/ passes THEN inner
    ELSE Dirty(inner.value, inner.issues \o <<Issue(path, <<Lit(message)>>)>>)

\* ------------------------------------------------------------ the schemas

PackageField(k, v, path) ==
    IF k \in {"name", "version"} THEN NonEmptyString(v, path)
    ELSE OptionalNonEmptyString(v, path)

\* PackageSchema
PackageSchema(v, path) ==
    StrictObject(v, path, <<"description", "license", "name", "org", "version">>,
                 PackageField)

\* AgentsSchema: z.record(z.string(), z.boolean())
AgentsSchema(v, path) ==
    IF v.t # "object" THEN InvalidType("object", v, path)
    ELSE
        LET keys == SetToSeq(DOMAIN v.kv)
            bad == [i \in 1..Len(keys) |->
                       IF v.kv[keys[i]].t = "boolean" THEN <<>>
                       ELSE InvalidType("boolean", v.kv[keys[i]],
                                        path \o <<Lit(keys[i])>>).issues]
        IN IF Flatten(bad) = <<>> THEN Valid(v) ELSE Aborted(Flatten(bad))

\* The refinement with its bound off by one: two refs pass.
AtMostOneRef_OffByOne(d) ==
    Cardinality({k \in {"tag", "branch", "rev"} : Truthy(Field(d, k))}) <= 2

\* [d.tag, d.branch, d.rev].filter(Boolean).length <= 1
AtMostOneRef(d) ==
    Cardinality({k \in {"tag", "branch", "rev"} : Truthy(Field(d, k))}) <= 1

OnlyOneRefMessage == "Only one of 'tag', 'branch', or 'rev' can be specified"

GithubField(k, v, path) ==
    IF k = "gh" THEN GithubRef(v, path) ELSE OptionalNonEmptyString(v, path)

\* The z.object({...}).strict() of GithubDependency
GithubObject(v, path) ==
    StrictObject(v, path, <<"branch", "gh", "path", "rev", "tag">>, GithubField)

\* GithubDependency
GithubDependency(v, path) ==
    Refine(GithubObject(v, path), path, AtMostOneRef(GithubObject(v, path).value),
           OnlyOneRefMessage)

GitField(k, v, path) ==
    IF k = "git" THEN NonEmptyString(v, path) ELSE OptionalNonEmptyString(v, path)

\* The z.object({...}).strict() of GitDependency
GitObject(v, path) ==
    StrictObject(v, path, <<"branch", "git", "path", "rev", "tag">>, GitField)

\* GitDependency
GitDependency(v, path) ==
    Refine(GitObject(v, path), path, AtMostOneRef(GitObject(v, path).value),
           OnlyOneRefMessage)

\* The local shape with its path optional: the empty object is a local
\* dependency.
LocalField_Optional(k, v, path) == OptionalNonEmptyString(v, path)

LocalField(k, v, path) == NonEmptyString(v, path)

\* LocalDependency
LocalDependency(v, path) == StrictObject(v, path, <<"path">>, LocalField)

\* The literal of z.literal("claude-plugin")
ClaudePluginLiteral == <<"c", "l", "a", "u", "d", "e", "-", "p", "l", "u", "g", "i", "n">>

ClaudePluginField(k, v, path) ==
    IF k = "type"
    THEN IF v.t = "string" /\ v.s = ClaudePluginLiteral THEN Valid(v)
         ELSE Aborted(<<Issue(path,
                  <<Lit("Invalid literal value, expected \"claude-plugin\"")>>)>>)
    ELSE NonEmptyString(v, path)

\* ClaudePluginDependency
ClaudePluginDependency(v, path) ==
    StrictObject(v, path, <<"marketplace", "plugin", "type">>, ClaudePluginField)

\* z.union(options): the first valid option's result; else the first dirty
\* option's result with its issues; else one "Invalid input" issue.
Union(results, path) ==
    LET valid == {i \in 1..Len(results) : results[i].status = "valid"}
        dirty == {i \in 1..Len(results) : results[i].status = "dirty"}
        first(S) == CHOOSE i \in S : \A j \in S : i <= j
    IN IF valid # {} THEN results[first(valid)]
       ELSE IF dirty # {} THEN results[first(dirty)]
       ELSE Aborted(<<Issue(path, <<Lit("Invalid input")>>)>>)

\* DependencyDeclaration
DependencyDeclaration(v, path) ==
    Union(<<RegistryDependency(v, path), GithubDependency(v, path),
            GitDependency(v, path), LocalDependency(v, path),
            ClaudePluginDependency(v, path)>>, path)

\* DependenciesSchema: z.record(Alias, DependencyDeclaration); the keys of the
\* result are the trimmed aliases.
DependenciesSchema(v, path) ==
    IF v.t # "object" THEN InvalidType("object", v, path)
    ELSE
        LET keys == SetToSeq(DOMAIN v.kv)
            keyRes == Tabulated([k \in DOMAIN v.kv |-> Alias(k, path \o <<Dyn(k)>>)])
            valRes == Tabulated([k \in DOMAIN v.kv |->
                          DependencyDeclaration(v.kv[k], path \o <<Dyn(k)>>)])
            out == {keyRes[k].value.s : k \in DOMAIN v.kv}
            from(a) == CHOOSE k \in DOMAIN v.kv : keyRes[k].value.s = a
        IN [status |-> MergeStatus({keyRes[k].status : k \in DOMAIN v.kv}
                                   \cup {valRes[k].status : k \in DOMAIN v.kv}),
            value |-> Table([a \in out |-> valRes[from(a)].value]),
            issues |-> Flatten([i \in 1..Len(keys) |->
                                   keyRes[keys[i]].issues \o valRes[keys[i]].issues])]

\* skills: z.union([NonEmptyString, z.literal(false)]).optional()
SkillsField(k, v, path) ==
    IF v.t = "undefined" THEN Valid(Undefined)
    ELSE Union(<<NonEmptyString(v, path),
                 IF v.t = "boolean" /\ v.b = FALSE THEN Valid(v)
                 ELSE Aborted(<<Issue(path,
                          <<Lit("Invalid literal value, expected false")>>)>>)>>,
               path)

AutoDiscoverField(k, v, path) ==
    IF v.t = "undefined" THEN Valid(Undefined)
    ELSE StrictObject(v, path, <<"skills">>, SkillsField)

\* ExportsSchema
ExportsSchema(v, path) ==
    StrictObject(v, path, <<"auto_discover">>, AutoDiscoverField)

ManifestField(k, v, path) ==
    CASE k = "agents" ->
            AgentsSchema(IF v.t = "undefined" THEN Table(<<>>) ELSE v, path)
      [] k = "dependencies" ->
            DependenciesSchema(IF v.t = "undefined" THEN Table(<<>>) ELSE v, path)
      [] k = "exports" ->
            IF v.t = "undefined" THEN Valid(Undefined) ELSE ExportsSchema(v, path)
      [] k = "package" ->
            IF v.t = "undefined" THEN Valid(Undefined) ELSE PackageSchema(v, path)

\* ManifestSchema
ManifestSchema(v) ==
    StrictObject(v, <<>>, <<"agents", "dependencies", "exports", "package">>,
                 ManifestField)

\* ------------------------------------------------------- parse.ts: results

NoError == [type |-> "none", message |-> <<>>, cause |-> "none"]

\* { ok: true, value }
Ok(v) == [ok |-> TRUE, value |-> v, error |-> NoError]

\* { ok: false, error: { type, message, cause } }
Err(type, message, cause) ==
    [ok |-> FALSE, value |-> Undefined,
     error |-> [type |-> type, message |-> message, cause |-> cause]]

\* --------------------------------------------- parse.ts: dependency parsing

\* The ways REGISTRY_PATTERN matches s: o the end of the org (0 without the
\* "@org/" prefix), n the end of the name.
RegistryMatches(s) ==
    {m \in [o : 0..Len(s), n : 1..Len(s)] :
        /\ \/ m.o = 0
           \/ /\ s[1] = "@"
              /\ m.o \in ClassRunEnds(s, 2, RegistryChars)
              /\ m.o + 1 <= Len(s)
              /\ s[m.o + 1] = "/"
        /\ m.n \in ClassRunEnds(s, IF m.o = 0 THEN 1 ELSE m.o + 2, RegistryChars)
        /\ m.n + 1 <= Len(s)
        /\ s[m.n + 1] = "@"
        /\ DotPlusToEnd(s, m.n + 2)}

\* A match that splits name and version at the last "@" of the string.
RegistryExec_LastAt(s) ==
    LET ats == {i \in 1..Len(s) : s[i] = "@"}
        last == CHOOSE i \in ats : \A j \in ats : j <= i
        slash == {i \in 1..Len(s) : s[i] = "/"}
        o == IF s[1] = "@" /\ slash # {}
             THEN (CHOOSE i \in slash : \A j \in slash : i <= j) - 1 ELSE 0
    IN IF RegistryMatches(s) = {}
       THEN [matched |-> FALSE, org |-> Undefined, name |-> <<>>, version |-> <<>>]
       ELSE [matched |-> TRUE,
             org |-> IF o = 0 THEN Undefined ELSE Str(SubStr(s, 2, o)),
             name |-> SubStr(s, IF o = 0 THEN 1 ELSE o + 2, last - 1),
             version |-> SubStr(s, last + 1, Len(s))]

\* value.match(REGISTRY_PATTERN): the match the backtracking search finds
\* first (the optional group taken before it is skipped, each + greedy), as
\* [matched, org, name, version]; org is undefined when the group took no part.
RegistryExec(s) ==
    LET ms == RegistryMatches(s)
        before(a, b) == \/ a.o > b.o
                        \/ a.o = b.o /\ a.n >= b.n
    IN IF ms = {}
       THEN [matched |-> FALSE, org |-> Undefined, name |-> <<>>, version |-> <<>>]
       ELSE LET m == CHOOSE a \in ms : \A b \in ms : before(a, b)
                start == IF m.o = 0 THEN 1 ELSE m.o + 2
            IN [matched |-> TRUE,
                org |-> IF m.o = 0 THEN Undefined ELSE Str(SubStr(s, 2, m.o)),
                name |-> SubStr(s, start, m.n),
                version |-> SubStr(s, m.n + 2, Len(s))]

\* parseRegistryString: null (matched = FALSE) or the registry dependency
parseRegistryString(value) ==
    LET match == RegistryExec(value)
    IN IF ~match.matched THEN [matched |-> FALSE, dep |-> <<>>]
       ELSE [matched |-> TRUE,
             dep |-> ("name" :> match.name) @@ ("type" :> "registry")
                     @@ ("version" :> match.version)
                     @@ (IF Truthy(match.org) THEN "org" :> match.org.s ELSE <<>>)]

NoRef == [type |-> "undefined", value |-> <<>>]

\* The extraction with its order reversed: rev, then branch, then tag.
extractGitRef_RevFirst(dep) ==
    IF Truthy(Field(dep, "rev")) THEN [type |-> "rev", value |-> Field(dep, "rev").s]
    ELSE IF Truthy(Field(dep, "branch"))
         THEN [type |-> "branch", value |-> Field(dep, "branch").s]
    ELSE IF Truthy(Field(dep, "tag"))
         THEN [type |-> "tag", value |-> Field(dep, "tag").s]
    ELSE NoRef

\* extractGitRef
extractGitRef(dep) ==
    IF Truthy(Field(dep, "tag")) THEN [type |-> "tag", value |-> Field(dep, "tag").s]
    ELSE IF Truthy(Field(dep, "branch"))
         THEN [type |-> "branch", value |-> Field(dep, "branch").s]
    ELSE IF Truthy(Field(dep, "rev"))
         THEN [type |-> "rev", value |-> Field(dep, "rev").s]
    ELSE NoRef

\* ...(decl.path && { path: decl.path })
SpreadPath(decl) ==
    IF Truthy(Field(decl, "path")) THEN "path" :> Field(decl, "path").s ELSE <<>>

\* The dispatch with the test for `path` moved before the test for `gh`.
parseDependency_PathFirst(alias, decl) ==
    IF decl.t = "string"
    THEN IF ~parseRegistryString(decl.s).matched
         THEN Err("invalid_dependency",
                  <<Lit("Invalid registry dependency format for '"), Dyn(alias),
                    Lit("': "), Dyn(decl.s)>>, "none")
         ELSE Ok(parseRegistryString(decl.s).dep)
    ELSE IF Has(decl, "path")
    THEN Ok(("path" :> Field(decl, "path").s) @@ ("type" :> "local"))
    ELSE IF Has(decl, "gh")
    THEN Ok(("gh" :> Field(decl, "gh").s) @@ ("ref" :> extractGitRef(decl))
            @@ ("type" :> "github") @@ SpreadPath(decl))
    ELSE IF Has(decl, "git")
    THEN Ok(("ref" :> extractGitRef(decl)) @@ ("type" :> "git")
            @@ ("url" :> Field(decl, "git").s) @@ SpreadPath(decl))
    ELSE IF Has(decl, "type") /\ Field(decl, "type").t = "string"
            /\ Field(decl, "type").s = ClaudePluginLiteral
    THEN Ok(("marketplace" :> Field(decl, "marketplace").s)
            @@ ("plugin" :> Field(decl, "plugin").s) @@ ("type" :> "claude-plugin"))
    ELSE Err("invalid_dependency",
             <<Lit("Unknown dependency format for '"), Dyn(alias), Lit("'")>>, "none")

\* parseDependency(alias, decl)
parseDependency(alias, decl) ==
    IF decl.t = "string"
    THEN IF ~parseRegistryString(decl.s).matched
         THEN Err("invalid_dependency",
                  <<Lit("Invalid registry dependency format for '"), Dyn(alias),
                    Lit("': "), Dyn(decl.s)>>, "none")
         ELSE Ok(parseRegistryString(decl.s).dep)
    ELSE IF Has(decl, "gh")
    THEN Ok(("gh" :> Field(decl, "gh").s) @@ ("ref" :> extractGitRef(decl))
            @@ ("type" :> "github") @@ SpreadPath(decl))
    ELSE IF Has(decl, "git")
    THEN Ok(("ref" :> extractGitRef(decl)) @@ ("type" :> "git")
            @@ ("url" :> Field(decl, "git").s) @@ SpreadPath(decl))
    ELSE IF Has(decl, "type") /\ Field(decl, "type").t = "string"
            /\ Field(decl, "type").s = ClaudePluginLiteral
    THEN Ok(("marketplace" :> Field(decl, "marketplace").s)
            @@ ("plugin" :> Field(decl, "plugin").s) @@ ("type" :> "claude-plugin"))
    ELSE IF Has(decl, "path")
    THEN Ok(("path" :> Field(decl, "path").s) @@ ("type" :> "local"))
    ELSE Err("invalid_dependency",
             <<Lit("Unknown dependency format for '"), Dyn(alias), Lit("'")>>, "none")

\* ------------------------------------------------------ parse.ts: pipeline

\* parseToml(contents): the tree of a well-formed text, or the syntax error
\* the text makes smol-toml throw.
parseToml(contents) ==
    IF contents.syntax = "ok"
    THEN [threw |-> "none", value |-> contents.tree, message |-> <<>>]
    ELSE [threw |-> contents.thrown, value |-> Undefined,
          message |-> contents.diagnostic]

\* The catch block of step 1.
InvalidToml(err) ==
    Err("invalid_toml",
        IF err.threw = "Error" THEN err.message ELSE <<Lit("Invalid TOML syntax")>>,
        err.threw)

\* ManifestSchema.parse with a trim that is applied before the type check:
\* s.trim() on a package field that is not a string throws a TypeError.
ManifestSchemaParse_TrimThrows(raw) ==
    LET r == ManifestSchema(raw)
        pkg == Field(raw, "package")
    IN IF \E k \in {"name", "version", "description", "license", "org"} :
              Has(pkg, k) /\ Field(pkg, k).t # "string"
       THEN [threw |-> "TypeError", value |-> Undefined, issues |-> <<>>]
       ELSE IF r.status = "valid"
       THEN [threw |-> "none", value |-> r.value, issues |-> <<>>]
       ELSE [threw |-> "ZodError", value |-> Undefined, issues |-> r.issues]

\* ManifestSchema.parse(raw): the manifest, or a thrown ZodError with the issues
ManifestSchemaParse(raw) ==
    LET r == ManifestSchema(raw)
    IN IF r.status = "valid"
       THEN [threw |-> "none", value |-> r.value, issues |-> <<>>]
       ELSE [threw |-> "ZodError", value |-> Undefined, issues |-> r.issues]

\* i.path.join(".") + ": " + i.message
FormatIssue(i) ==
    Flatten([k \in 1..Len(i.path) |->
                IF k = 1 THEN <<i.path[k]>> ELSE <<Lit("."), i.path[k]>>])
    \o <<Lit(": ")>> \o i.message

\* "Invalid manifest: " + issues.map(...).join("; ")
InvalidManifest(issues) ==
    Err("invalid_manifest",
        <<Lit("Invalid manifest: ")>>
        \o Flatten([k \in 1..Len(issues) |->
                       IF k = 1 THEN FormatIssue(issues[k])
                       ELSE <<Lit("; ")>> \o FormatIssue(issues[k])]),
        "ZodError")

\* Step 3 without the KNOWN_AGENTS test: every declared agent is kept.
ProcessAgents_KeepAll(manifest, known) ==
    LET agents == Field(manifest, "agents")
    IN [id \in DOMAIN agents.kv |-> agents.kv[id].b]

\* Step 3: the agents of the manifest whose id is a known one.
ProcessAgents(manifest, known) ==
    LET agents == Field(manifest, "agents")
    IN [id \in {k \in DOMAIN agents.kv : k \in known} |-> agents.kv[id].b]

\* Steps 4 and 5: every dependency parsed, the first failure returned;
\* otherwise the validated manifest.
Normalize(manifest, known) ==
    LET deps == Field(manifest, "dependencies")
        order == SetToSeq(DOMAIN deps.kv)
        res(i) == parseDependency(order[i], deps.kv[order[i]])
        failed == {i \in 1..Len(order) : ~res(i).ok}
    IN IF failed # {} THEN res(CHOOSE i \in failed : \A j \in failed : i <= j)
       ELSE Ok(("agents" :> ProcessAgents(manifest, known))
               @@ ("dependencies" :>
                      [a \in DOMAIN deps.kv |-> parseDependency(a, deps.kv[a]).value])
               @@ (IF Has(manifest, "package")
                   THEN "package" :> Field(manifest, "package") ELSE <<>>)
               @@ (IF Has(manifest, "exports")
                   THEN "exports" :> Field(manifest, "exports") ELSE <<>>))

\* ------------------------------------------------------------- the inputs

\* A table from a record of fields, a field of value Undefined left out.
MkTable(f) == Table([k \in {x \in DOMAIN f : f[x].t # "undefined"} |-> f[k]])

\* t with the key k added
WithKey(t, k, v) == Table([x \in DOMAIN t.kv \cup {k} |-> IF x = k THEN v ELSE t.kv[x]])

Blank == <<" ", "\t">>
Pad(s) == <<" ">> \o s \o <<" ">>

\* A string field's values: the text, the text padded, blank, and not a string.
FieldValues(s) == {Str(s), Str(Pad(s)), Str(Blank), Num}

\* Registry shorthand candidates: every string of these characters.
RegistryAlphabet == {"a", "@", "/", "\n"}
RegistryStrings == UNION {[1..n -> RegistryAlphabet] : n \in 0..MaxRegLen}

RefValues == {Undefined} \cup FieldValues(<<"v", "1">>)
ClearRefValues == {Undefined, Str(<<"v", "1">>)}
PathValues == {Undefined} \cup FieldValues(<<"p">>)

OwnerRepo == <<"o", "/", "r">>
GhValues == FieldValues(OwnerRepo) \cup {Str(<<"o">>)}

SshUrl == <<"g", "i", "t", "@", "h", ":", "o", "/", "r", ".", "g", "i", "t">>
HttpUrl == <<"h", "t", "t", "p", ":", "/", "/", "h", "/", "r">>
HttpsGitUrl == <<"h", "t", "t", "p", "s", ":", "/", "/", "h", "/", "r", ".", "g", "i", "t">>
HttpsUrl == <<"h", "t", "t", "p", "s", ":", "/", "/", "h", "/", "r">>
GitValues == FieldValues(HttpsUrl) \cup {Str(SshUrl), Str(HttpUrl), Str(HttpsGitUrl)}

\* Keys no schema declares, and keys another dependency shape declares.
ExtraKeys == {"none", "extra", "plugin", "gh"}

WithExtra(t, k) == IF k = "none" \/ Has(t, k) THEN t ELSE WithKey(t, k, Str(OwnerRepo))

GithubDecls ==
    {MkTable([gh |-> g, tag |-> a, branch |-> b, rev |-> c]) :
        g \in GhValues, a \in RefValues, b \in RefValues, c \in RefValues}
    \cup {WithExtra(MkTable([gh |-> Str(OwnerRepo), tag |-> a, branch |-> b,
                             rev |-> c, path |-> q]), k) :
             a \in ClearRefValues, b \in ClearRefValues, c \in ClearRefValues,
             q \in PathValues, k \in ExtraKeys}

GitDecls ==
    {MkTable([git |-> g, tag |-> a, branch |-> b, rev |-> c]) :
        g \in GitValues, a \in RefValues, b \in RefValues, c \in RefValues}
    \cup {WithExtra(MkTable([git |-> Str(HttpsUrl), tag |-> a, branch |-> b,
                             rev |-> c, path |-> q]), k) :
             a \in ClearRefValues, b \in ClearRefValues, c \in ClearRefValues,
             q \in PathValues, k \in ExtraKeys}

LocalDecls ==
    {WithExtra(MkTable([path |-> q]), k) : q \in PathValues, k \in ExtraKeys}
    \cup {MkTable([path |-> Str(<<"p">>), tag |-> Str(<<"v", "1">>)])}

PluginDecls ==
    {WithExtra(MkTable([type |-> ty, plugin |-> pl, marketplace |-> mk]), k) :
        ty \in {Undefined, Num, Str(<<"x">>), Str(Blank), Str(ClaudePluginLiteral)},
        pl \in {Undefined} \cup FieldValues(<<"p">>),
        mk \in {Undefined, Str(OwnerRepo), Str(Blank)},
        k \in {"none", "extra", "path"}}

Declarations ==
    {Str(s) : s \in RegistryStrings} \cup GithubDecls \cup GitDecls
    \cup LocalDecls \cup PluginDecls \cup {Num, Bool(TRUE)}

\* One declaration of each kind, for the documents that vary the alias.
SampleDeclarations ==
    {Str(<<"a", "@", "1">>), Str(<<"a">>),
     Str(<<"@", "o", "/", "n", "@", "1", "@", "2">>),
     MkTable([gh |-> Str(OwnerRepo), tag |-> Str(<<"v", "1">>)]),
     MkTable([gh |-> Str(OwnerRepo), tag |-> Str(<<"v", "1">>),
              rev |-> Str(<<"v", "1">>)]),
     MkTable([git |-> Str(SshUrl)]),
     MkTable([path |-> Str(<<"p">>)]),
     MkTable([type |-> Str(ClaudePluginLiteral), plugin |-> Str(<<"p">>),
              marketplace |-> Str(OwnerRepo)])}

Aliases ==
    {<<"x">>, <<" ", "x", " ">>, <<"a", ".", "b">>, <<"a", "/", "b">>,
     <<"a", ":", "b">>, <<"a", "\\", "b">>, <<" ">>, <<>>}

DependencyTables ==
    {Table(<<"x">> :> d) : d \in Declarations}
    \cup {Table(a :> d) : a \in Aliases, d \in SampleDeclarations}
    \cup {Table((<<"x">> :> d) @@ (<<"y">> :> e)) :
             d \in SampleDeclarations, e \in SampleDeclarations}
    \cup {Table(<<>>), Num}

ValidPackage == MkTable([name |-> Str(<<"n">>), version |-> Str(<<"1">>)])

PackageValues ==
    {WithExtra(MkTable([name |-> n, version |-> v, description |-> d, org |-> o]), k) :
        n \in {Undefined} \cup FieldValues(<<"n">>),
        v \in {Undefined, Str(<<"1">>), Str(Blank)},
        d \in {Undefined, Str(Pad(<<"d">>)), Str(Blank)},
        o \in {Undefined, Num},
        k \in {"none", "extra"}}
    \cup {Undefined, Num}

AgentValues ==
    {Table(<<>>), Undefined, Num}
    \cup {Table([k \in ks |-> f[k]]) :
             ks \in (SUBSET {"claude-code", "codex", "opencode", "future-agent"}) \ {{}},
             f \in [{"claude-code", "codex", "opencode", "future-agent"} ->
                       {Bool(TRUE), Bool(FALSE), Str(<<"x">>)}]}

SkillsValues == {Undefined, Bool(FALSE), Bool(TRUE)} \cup FieldValues(<<"s">>)

ExportsValues ==
    {WithExtra(MkTable([auto_discover |-> WithExtra(MkTable([skills |-> s]), j)]), k) :
        s \in SkillsValues, j \in {"none", "extra"}, k \in {"none", "extra"}}
    \cup {Undefined, Num, Table(<<>>), MkTable([auto_discover |-> Num])}

\* The trees smol-toml can return for the modelled texts.
Documents ==
    {WithExtra(MkTable([package |-> p, agents |-> a]), k) :
        p \in PackageValues, a \in {Undefined, Table("claude-code" :> Bool(TRUE))},
        k \in {"none", "extra"}}
    \cup {MkTable([package |-> p, agents |-> a]) :
             p \in {Undefined, ValidPackage}, a \in AgentValues}
    \cup {WithExtra(MkTable([package |-> p, agents |-> Table(<<>>), exports |-> e]), k) :
             p \in {Undefined, ValidPackage}, e \in ExportsValues,
             k \in {"none", "extra"}}
    \cup {MkTable([agents |-> a, dependencies |-> d]) :
             a \in {Table(<<>>)}, d \in DependencyTables}

GoodToml(tree) ==
    [syntax |-> "ok", tree |-> tree, thrown |-> "none", diagnostic |-> <<>>]
BadToml(thrown) ==
    [syntax |-> "error", tree |-> Undefined, thrown |-> thrown,
     diagnostic |-> <<Lit("Invalid TOML document: unexpected end of input")>>]

\* The texts parse is called with: a text is either one smol-toml rejects (by
\* throwing an Error, or some other value) or one that denotes a tree.
Contents == {BadToml("Error"), BadToml("other")} \cup {GoodToml(d) : d \in Documents}

\* -------------------------------------------------------- the state machine

VARIABLES
    KNOWN_AGENTS,   \* the module-level set of known agent ids
    pc,             \* where the running call is: idle, step1, step2, step3, return, done
    entry,          \* the entry point called: parse or parseOrThrow
    contents,       \* the argument of the call
    raw,            \* parse's local: the tree parseToml returned
    manifest,       \* parse's local: the manifest ManifestSchema.parse returned
    result,         \* the ParseResult parse returns
    rethrown,       \* the exception parse lets through ("none" when it returns)
    outcome,        \* what the caller of the entry point gets: a value or a throw
    stages          \* the stages parse has run, in order

vars ==
    <<KNOWN_AGENTS, pc, entry, contents, raw, manifest, result, rethrown, outcome,
      stages>>

NoContents == [syntax |-> "none", tree |-> Undefined, thrown |-> "none", diagnostic |-> <<>>]
NoResult == [ok |-> FALSE, value |-> Undefined, error |-> NoError]
NoOutcome == [kind |-> "none", value |-> Undefined, message |-> <<>>]

Returned(v) == [kind |-> "returned", value |-> v, message |-> <<>>]
Thrown(message) == [kind |-> "thrown", value |-> Undefined, message |-> message]

Init ==
    /\ KNOWN_AGENTS = AgentIdOptions
    /\ pc = "idle"
    /\ entry = "none"
    /\ contents = NoContents
    /\ raw = Undefined
    /\ manifest = Undefined
    /\ result = NoResult
    /\ rethrown = "none"
    /\ outcome = NoOutcome
    /\ stages = <<>>

\* A caller calls parse(c) or parseOrThrow(c).
Call(e, c) ==
    /\ pc = "idle"
    /\ pc' = "step1"
    /\ entry' = e
    /\ contents' = c
    /\ UNCHANGED <<KNOWN_AGENTS, raw, manifest, result, rethrown, outcome, stages>>

\* Step 1 without the return in its catch block: the pipeline goes on to
\* validate an undefined tree.
Step1_FallsThrough ==
    /\ pc = "step1"
    /\ stages' = Append(stages, "toml")
    /\ raw' = parseToml(contents).value
    /\ pc' = "step2"
    /\ UNCHANGED <<KNOWN_AGENTS, entry, contents, manifest, result, rethrown, outcome>>

\* Step 1: parse TOML.
Step1 ==
    /\ pc = "step1"
    /\ stages' = Append(stages, "toml")
    /\ LET t == parseToml(contents)
       IN IF t.threw # "none"
          THEN /\ result' = InvalidToml(t)
               /\ pc' = "return"
               /\ raw' = raw
          ELSE /\ raw' = t.value
               /\ pc' = "step2"
               /\ result' = result
    /\ UNCHANGED <<KNOWN_AGENTS, entry, contents, manifest, rethrown, outcome>>

\* Step 2: validate against the schema; a ZodError becomes invalid_manifest,
\* anything else thrown is thrown on.
Step2 ==
    /\ pc = "step2"
    /\ stages' = Append(stages, "validate")
    /\ LET m == ManifestSchemaParse(raw)
       IN CASE m.threw = "none" ->
                 /\ manifest' = m.value
                 /\ pc' = "step3"
                 /\ UNCHANGED <<result, rethrown>>
            [] m.threw = "ZodError" ->
                 /\ result' = InvalidManifest(m.issues)
                 /\ pc' = "return"
                 /\ UNCHANGED <<manifest, rethrown>>
            [] OTHER ->
                 /\ rethrown' = m.threw
                 /\ pc' = "return"
                 /\ UNCHANGED <<manifest, result>>
    /\ UNCHANGED <<KNOWN_AGENTS, entry, contents, raw, outcome>>

\* Steps 3 to 5 with a filter that remembers: the agent ids a manifest
\* declares are added to the known ones.
Step3_LearnsAgents ==
    /\ pc = "step3"
    /\ stages' = Append(stages, "normalize")
    /\ result' = Normalize(manifest, KNOWN_AGENTS)
    /\ KNOWN_AGENTS' = KNOWN_AGENTS \cup DOMAIN Field(manifest, "agents").kv
    /\ pc' = "return"
    /\ UNCHANGED <<entry, contents, raw, manifest, rethrown, outcome>>

\* Steps 3 to 5: filter the agents, parse the dependencies, build the result.
Step3 ==
    /\ pc = "step3"
    /\ stages' = Append(stages, "normalize")
    /\ result' = Normalize(manifest, KNOWN_AGENTS)
    /\ pc' = "return"
    /\ UNCHANGED <<KNOWN_AGENTS, entry, contents, raw, manifest, rethrown, outcome>>

\* parseOrThrow throwing the error's type in place of its message.
parseOrThrow_ThrowsKind(r) ==
    IF ~r.ok THEN Thrown(<<Lit(r.error.type)>>) ELSE Returned(r.value)

\* What parseOrThrow makes of parse's result.
parseOrThrow(r) == IF ~r.ok THEN Thrown(r.error.message) ELSE Returned(r.value)

\* The entry point completes: parse hands its result to the caller,
\* parseOrThrow throws the error's message or returns the value.
Return ==
    /\ pc = "return"
    /\ pc' = "done"
    /\ outcome' = IF rethrown # "none" THEN Thrown(<<Lit(rethrown)>>)
                  ELSE IF entry = "parse" THEN Returned(result)
                  ELSE parseOrThrow(result)
    /\ UNCHANGED <<KNOWN_AGENTS, entry, contents, raw, manifest, result, rethrown,
                   stages>>

\* The caller is done with the call; the next call starts from nothing.
Reset ==
    /\ pc = "done"
    /\ pc' = "idle"
    /\ entry' = "none"
    /\ contents' = NoContents
    /\ raw' = Undefined
    /\ manifest' = Undefined
    /\ result' = NoResult
    /\ rethrown' = "none"
    /\ outcome' = NoOutcome
    /\ stages' = <<>>
    /\ UNCHANGED KNOWN_AGENTS

\* Any caller, any modelled text.
CallAny ==
    /\ pc = "idle"
    /\ \E e \in {"parse", "parseOrThrow"}, c \in Contents : Call(e, c)

Next ==
    \/ CallAny
    \/ Step1
    \/ Step2
    \/ Step3
    \/ Return
    \/ Reset

Spec == Init /\ [][Next]_vars

\* ----------------------------------------------------------------- claims

\* The tree of the text being parsed and its dependency declarations.
Tree == contents.tree
DeclaredDeps == Field(Tree, "dependencies")
DeclaredAliases ==
    IF DeclaredDeps.t = "object" THEN DOMAIN DeclaredDeps.kv ELSE {}
Declared(a) == DeclaredDeps.kv[a]

\* The call has completed on a well-formed text.
DoneOnTree == pc = "done" /\ contents.syntax = "ok"

ErrorType == result.error.type
ErrorMessage == result.error.message

\* The dependency of the result that alias a of the text became.
ResultDep(a) == result.value.dependencies[Trim(a)]

\* The message contains the text chars, copied from the input.
NamesText(message, chars) ==
    \E i \in 1..Len(message) : message[i].lit = "" /\ message[i].dyn = chars

\* The message contains the field name f.
NamesField(message, f) ==
    \E i \in 1..Len(message) :
        \/ message[i].lit = f
        \/ message[i].lit = OnlyOneRefMessage /\ f \in {"tag", "branch", "rev"}

StartsWith(s, p) == Len(s) >= Len(p) /\ SubStr(s, 1, Len(p)) = p
EndsWith(s, p) == Len(s) >= Len(p) /\ SubStr(s, Len(s) - Len(p) + 1, Len(s)) = p

HttpScheme == <<"h", "t", "t", "p", ":", "/", "/">>
HttpsScheme == <<"h", "t", "t", "p", "s", ":", "/", "/">>
DotGit == <<".", "g", "i", "t">>

\* user@host:ownerpath, where the "@" and the ":" are the first ones
SshSplit(s) ==
    {m \in [at : 2..Len(s), colon : 3..Len(s)] :
        /\ s[m.at] = "@" /\ \A i \in 1..(m.at - 1) : s[i] # "@"
        /\ m.colon > m.at + 1 /\ m.colon < Len(s)
        /\ s[m.colon] = ":" /\ \A i \in (m.at + 1)..(m.colon - 1) : s[i] # ":"}

IsSshShorthand(s) ==
    ~StartsWith(s, HttpScheme) /\ ~StartsWith(s, HttpsScheme) /\ SshSplit(s) # {}

\* The normal form the documentation gives a git URL: SSH shorthand and
\* http:// rewritten to https://, then a trailing .git stripped.
SchemeNormalized(s) ==
    IF IsSshShorthand(s)
    THEN LET m == CHOOSE x \in SshSplit(s) : TRUE
         IN HttpsScheme \o SubStr(s, m.at + 1, m.colon - 1) \o <<"/">>
            \o SubStr(s, m.colon + 1, Len(s))
    ELSE IF StartsWith(s, HttpScheme)
    THEN HttpsScheme \o SubStr(s, Len(HttpScheme) + 1, Len(s))
    ELSE s

DocumentedGitUrl(s) ==
    LET n == SchemeNormalized(s)
    IN IF EndsWith(n, DotGit) THEN SubStr(n, 1, Len(n) - Len(DotGit)) ELSE n

\* C1: every accepted dependency declared with a `git` key has as url the
\* normalized form of the declared value (SSH shorthand and http:// rewritten
\* to https://, a trailing .git stripped).
C1_GitUrlNormalized ==
    (DoneOnTree /\ result.ok) =>
        \A a \in DeclaredAliases :
            Has(Declared(a), "git") =>
                ResultDep(a).url = DocumentedGitUrl(Trim(Field(Declared(a), "git").s))

AllStages == <<"toml", "validate", "normalize">>

\* C2: the stages run in the order text-parse, structural validation,
\* normalization, and the result tells the first stage that failed:
\* invalid_toml exactly when the text parser fails (nothing else has run),
\* invalid_manifest exactly when the text parses and the schema rejects the
\* tree (normalization has not run), invalid_dependency and success only
\* after all three stages; success only when all three succeeded.
C2_StagesInOrder ==
    /\ \E n \in 0..Len(AllStages) : stages = SubSeq(AllStages, 1, n)
    /\ pc = "done" =>
        /\ ErrorType = "invalid_toml" <=> contents.syntax = "error"
        /\ ErrorType = "invalid_toml" => stages = <<"toml">>
        /\ ErrorType = "invalid_manifest" <=>
              (contents.syntax = "ok" /\ ManifestSchema(Tree).status # "valid")
        /\ ErrorType = "invalid_manifest" => stages = <<"toml", "validate">>
        /\ ErrorType = "invalid_dependency" =>
              /\ stages = AllStages
              /\ contents.syntax = "ok" /\ ManifestSchema(Tree).status = "valid"
        /\ result.ok =>
              /\ stages = AllStages
              /\ contents.syntax = "ok" /\ ManifestSchema(Tree).status = "valid"
        /\ result.ok \/ ErrorType \in {"invalid_toml", "invalid_manifest",
                                       "invalid_dependency"}

\* A text that parses and is rejected by the schema: two stages have run.
C2_Witness ==
    /\ pc = "done" /\ contents.syntax = "ok"
    /\ ErrorType = "invalid_manifest" /\ stages = <<"toml", "validate">>

\* C3: a call of parse always ends by returning a result, ok with a manifest
\* or not ok with an error of one of the three kinds, and never by throwing.
C3_ParseNeverThrows ==
    (pc = "done" /\ entry = "parse") =>
        /\ outcome.kind = "returned"
        /\ rethrown = "none"
        /\ outcome.value = result
        /\ \/ result.ok /\ result.error = NoError
           \/ ~result.ok /\ ErrorType \in {"invalid_toml", "invalid_manifest",
                                           "invalid_dependency"}

\* parse has returned a result for a tree the schema rejects.
C3_Witness ==
    /\ pc = "done" /\ entry = "parse" /\ contents.syntax = "ok"
    /\ ManifestSchema(Tree).status # "valid"
    /\ outcome.kind = "returned" /\ ~outcome.value.ok

\* C4: parseOrThrow throws exactly when parse returns a not-ok result, the
\* thrown message is that result's error message, and when parse returns ok
\* parseOrThrow returns the manifest of that result.
C4_ParseOrThrowIsParse ==
    (pc = "done" /\ entry = "parseOrThrow") =>
        /\ outcome.kind = "thrown" <=> ~result.ok
        /\ outcome.kind = "thrown" => outcome.message = ErrorMessage
        /\ result.ok => outcome.kind = "returned" /\ outcome.value = result.value

\* parseOrThrow has thrown the message of an invalid_manifest error.
C4_Witness ==
    /\ pc = "done" /\ entry = "parseOrThrow"
    /\ ErrorType = "invalid_manifest" /\ outcome.kind = "thrown"
    /\ outcome.message = ErrorMessage /\ Len(outcome.message) > 1

RefsPresent(d) == {k \in {"tag", "branch", "rev"} : Has(d, k)}

\* d satisfies the closed object schema of the GitHub or of the Git shape:
\* only the ref exclusivity is left to decide.
OfGitShape(d) ==
    GithubObject(d, <<>>).status = "valid" \/ GitObject(d, <<>>).status = "valid"

\* C5: a dependency object with a `gh` or `git` key in which two or more of
\* tag, branch, rev are present makes parse fail with invalid_manifest and a
\* message that names the alias; when the object is otherwise of the GitHub or
\* Git shape, the message also names each ref field present.
C5_MultipleRefsRejected ==
    DoneOnTree =>
        \A a \in DeclaredAliases :
            (/\ Has(Declared(a), "gh") \/ Has(Declared(a), "git")
             /\ Cardinality(RefsPresent(Declared(a))) >= 2) =>
                /\ ~result.ok
                /\ ErrorType = "invalid_manifest"
                /\ NamesText(ErrorMessage, a)
                /\ OfGitShape(Declared(a)) =>
                      \A f \in RefsPresent(Declared(a)) : NamesField(ErrorMessage, f)

\* A declaration of the GitHub or Git shape with two refs has been rejected
\* with a message naming them.
C5_Witness ==
    /\ DoneOnTree
    /\ ErrorType = "invalid_manifest"
    /\ \E a \in DeclaredAliases :
          /\ OfGitShape(Declared(a))
          /\ RefsPresent(Declared(a)) = {"tag", "branch"}
          /\ NamesText(ErrorMessage, a)
          /\ NamesField(ErrorMessage, "tag") /\ NamesField(ErrorMessage, "branch")

\* The declared field sets of the four dependency object shapes.
DependencyShapes ==
    {{"branch", "gh", "path", "rev", "tag"}, {"branch", "git", "path", "rev", "tag"},
     {"path"}, {"marketplace", "plugin", "type"}}

KeysOf(v) == IF v.t = "object" THEN DOMAIN v.kv ELSE {}

\* The tree has a key outside the declared field set of the top level, of
\* package, of exports, of exports.auto_discover, or a dependency object
\* whose keys fit the declared field set of no dependency shape.
HasUndeclaredKey(tree) ==
    \/ ~(KeysOf(tree) \subseteq {"agents", "dependencies", "exports", "package"})
    \/ ~(KeysOf(Field(tree, "package"))
            \subseteq {"description", "license", "name", "org", "version"})
    \/ ~(KeysOf(Field(tree, "exports")) \subseteq {"auto_discover"})
    \/ ~(KeysOf(Field(Field(tree, "exports"), "auto_discover")) \subseteq {"skills"})
    \/ \E a \in KeysOf(Field(tree, "dependencies")) :
          LET d == Field(tree, "dependencies").kv[a]
          IN d.t = "object" /\ \A shape \in DependencyShapes : ~(DOMAIN d.kv \subseteq shape)

Without(v, k) == Table([x \in DOMAIN v.kv \ {k} |-> v.kv[x]])

KnownAgentSet == {"claude-code", "codex", "opencode"}

DeclaredAgents == KeysOf(Field(Tree, "agents"))

\* The tree without its agents entries of an unknown key and a boolean value.
WithoutUnknownAgents(tree) ==
    IF Field(tree, "agents").t # "object" THEN tree
    ELSE WithKey(tree, "agents",
            Table([k \in {x \in DOMAIN Field(tree, "agents").kv :
                            \/ x \in KnownAgentSet
                            \/ Field(tree, "agents").kv[x].t # "boolean"} |->
                      Field(tree, "agents").kv[k]]))

\* C7: agents entries (key, boolean) with a key outside the known set never
\* make parse fail (parse succeeds exactly when the tree without them is
\* valid) and are absent from the result; every entry with a known key is in
\* the result with its declared value; the result has no other key.
C7_AgentsFiltered ==
    DoneOnTree =>
        /\ result.ok <=> ManifestSchema(WithoutUnknownAgents(Tree)).status = "valid"
        /\ result.ok =>
              /\ DOMAIN result.value.agents = DeclaredAgents \cap KnownAgentSet
              /\ \A k \in DOMAIN result.value.agents :
                    result.value.agents[k] = Field(Tree, "agents").kv[k].b

\* A text with a known and an unknown agent has been accepted; only the
\* known one is in the result.
C7_Witness ==
    /\ DoneOnTree /\ result.ok
    /\ Field(Field(Tree, "agents"), "future-agent").t = "boolean"
    /\ Field(Field(Tree, "agents"), "codex") = Bool(FALSE)
    /\ "future-agent" \notin DOMAIN result.value.agents
    /\ result.value.agents["codex"] = FALSE

ShorthandChars == Alnum \cup {"_", "-"}

\* The splits of s as [@ORG/]NAME@VERSION: o is the last position of ORG (0
\* without the prefix), n the last position of NAME; ORG and NAME are
\* non-empty runs of ShorthandChars, VERSION is a non-empty remainder.
ShorthandSplits(s) ==
    {m \in [o : 0..Len(s), n : 1..Len(s)] :
        /\ \/ m.o = 0
           \/ /\ m.o >= 2 /\ m.o + 1 <= Len(s)
              /\ s[1] = "@" /\ s[m.o + 1] = "/"
              /\ \A i \in 2..m.o : s[i] \in ShorthandChars
        /\ m.n >= (IF m.o = 0 THEN 1 ELSE m.o + 2)
        /\ \A i \in (IF m.o = 0 THEN 1 ELSE m.o + 2)..m.n : s[i] \in ShorthandChars
        /\ m.n + 2 <= Len(s)
        /\ s[m.n + 1] = "@"}

MatchesShorthand(s) == ShorthandSplits(s) # {}

\* C8 as stated: a dependency declared as a string outside the shorthand
\* grammar makes parse fail with invalid_dependency and a message that names
\* the alias.
C8_BadShorthandIsInvalidDependency ==
    DoneOnTree =>
        \A a \in DeclaredAliases :
            (Declared(a).t = "string" /\ ~MatchesShorthand(Declared(a).s)) =>
                /\ ~result.ok
                /\ ErrorType = "invalid_dependency"
                /\ NamesText(ErrorMessage, a)

\* C8: a dependency declared as a string outside the shorthand grammar makes
\* parse fail with invalid_manifest (the schema rejects it before the
\* dependencies are normalized) and a message that names the alias.
C8_BadShorthandIsInvalidManifest ==
    DoneOnTree =>
        \A a \in DeclaredAliases :
            (Declared(a).t = "string" /\ ~MatchesShorthand(Declared(a).s)) =>
                /\ ~result.ok
                /\ ErrorType = "invalid_manifest"
                /\ NamesText(ErrorMessage, a)

\* A string with a name and no version, as the only fault of its text, has
\* been rejected by the schema.
C8_Witness ==
    /\ DoneOnTree
    /\ ~result.ok
    /\ ErrorType = "invalid_manifest"
    /\ DeclaredAliases = {<<"x">>}
    /\ Declared(<<"x">>) = Str(<<"a", "@">>)
    /\ NamesText(ErrorMessage, <<"x">>)
    /\ "normalize" \notin Range(stages)

\* C9: an accepted string dependency is a registry dependency whose parts
\* spell the string back as [@org/]name@version: name is a non-empty run of
\* [A-Za-z0-9_-] (so it ends before the first "@" after the prefix), version
\* is the whole non-empty remainder, and org is present exactly when the
\* string starts with the "@org/" prefix.
C9_RegistryParts ==
    (DoneOnTree /\ result.ok) =>
        \A a \in DeclaredAliases :
            Declared(a).t = "string" =>
                LET s == Declared(a).s
                    dep == ResultDep(a)
                    hasOrg == "org" \in DOMAIN dep
                    prefix == IF hasOrg THEN <<"@">> \o dep["org"] \o <<"/">> ELSE <<>>
                IN /\ dep["type"] = "registry"
                   /\ s = prefix \o dep["name"] \o <<"@">> \o dep["version"]
                   /\ dep["name"] # <<>> /\ Range(dep["name"]) \subseteq ShorthandChars
                   /\ dep["version"] # <<>>
                   /\ hasOrg => dep["org"] # <<>> /\ Range(dep["org"]) \subseteq ShorthandChars
                   /\ hasOrg <=> s[1] = "@"

\* A string with an org and a version that contains "@" has been accepted.
C9_Witness ==
    /\ DoneOnTree /\ result.ok
    /\ \E a \in DeclaredAliases :
          /\ Declared(a) = Str(<<"@", "o", "/", "n", "@", "1", "@", "2">>)
          /\ ResultDep(a)["org"] = <<"o">>
          /\ ResultDep(a)["name"] = <<"n">>
          /\ ResultDep(a)["version"] = <<"1", "@", "2">>

\* v with each of its string fields trimmed
TrimFieldsOf(v) ==
    IF v.t # "object" THEN v
    ELSE Table([k \in DOMAIN v.kv |->
                  IF v.kv[k].t = "string" THEN Str(Trim(v.kv[k].s)) ELSE v.kv[k]])

StringFieldsOf(v) ==
    IF v.t # "object" THEN {}
    ELSE {v.kv[k].s : k \in {x \in DOMAIN v.kv : v.kv[x].t = "string"}}

\* The values of the string fields of the manifest: those of package, of
\* exports.auto_discover and of the dependency objects.
StringFields(tree) ==
    StringFieldsOf(Field(tree, "package"))
    \cup StringFieldsOf(Field(Field(tree, "exports"), "auto_discover"))
    \cup UNION {StringFieldsOf(Field(tree, "dependencies").kv[a]) :
                   a \in KeysOf(Field(tree, "dependencies"))}

\* The tree with each string field of the manifest trimmed.
TrimmedTree(tree) ==
    LET pkg == Field(tree, "package")
        exp == Field(tree, "exports")
        ad == Field(exp, "auto_discover")
        deps == Field(tree, "dependencies")
        t1 == IF pkg.t = "object" THEN WithKey(tree, "package", TrimFieldsOf(pkg)) ELSE tree
        t2 == IF ad.t = "object"
              THEN WithKey(t1, "exports", WithKey(exp, "auto_discover", TrimFieldsOf(ad)))
              ELSE t1
    IN IF deps.t = "object"
       THEN WithKey(t2, "dependencies",
                    Table([a \in DOMAIN deps.kv |-> TrimFieldsOf(deps.kv[a])]))
       ELSE t2

\* C10 as stated: a string field of whitespace only makes parse fail with
\* invalid_manifest, and surrounding whitespace is removed before anything
\* else looks at a field: a text whose trimmed tree is valid is accepted, with
\* the result of its trimmed tree.
C10_TrimAndReject ==
    DoneOnTree =>
        /\ (\E s \in StringFields(Tree) : s # <<>> /\ Trim(s) = <<>>) =>
              ~result.ok /\ ErrorType = "invalid_manifest"
        /\ ManifestSchema(TrimmedTree(Tree)).status = "valid" =>
              result = Normalize(ManifestSchemaParse(TrimmedTree(Tree)).value, KNOWN_AGENTS)

\* C11 as stated: a text without an agents table makes parse fail with
\* invalid_manifest, and a text whose only table is an empty agents table is
\* accepted with an empty agents map.
C11_AgentsRequired ==
    DoneOnTree =>
        /\ ~Has(Tree, "agents") => ~result.ok /\ ErrorType = "invalid_manifest"
        /\ Tree = Table("agents" :> Table(<<>>)) =>
              result.ok /\ result.value.agents = <<>>

\* C12 as stated: an accepted dependency declared with gh = "owner/repo" has
\* the fields owner and repo, the parts of gh around its "/".
C12_OwnerAndRepo ==
    (DoneOnTree /\ result.ok) =>
        \A a \in DeclaredAliases :
            Has(Declared(a), "gh") =>
                /\ {"owner", "repo"} \subseteq DOMAIN ResultDep(a)
                /\ Declared(a).kv["gh"].s =
                      ResultDep(a)["owner"] \o <<"/">> \o ResultDep(a)["repo"]

\* Validated ref fields in every combination of absent, empty and non-empty.
RefCombinations ==
    {MkTable([tag |-> x, branch |-> y, rev |-> z]) :
        x \in {Undefined, Str(<<>>), Str(<<"t">>)},
        y \in {Undefined, Str(<<>>), Str(<<"b">>)},
        z \in {Undefined, Str(<<>>), Str(<<"r">>)}}

RefRank(f) == IF f = "tag" THEN 1 ELSE IF f = "branch" THEN 2 ELSE 3

\* The ref fields of d that hold a non-empty string.
NonEmptyRefs(d) == {f \in RefsPresent(d) : d.kv[f].t = "string" /\ d.kv[f].s # <<>>}

ReservedAliasChars == {"/", "\\", ".", ":"}

BadAlias(a) == Trim(a) = <<>> \/ Range(a) \cap ReservedAliasChars # {}

\* C14: a dependency whose alias is empty after trimming or contains one of
\* / \ . : makes parse fail with invalid_manifest; the keys of the
\* dependencies of a successful result are the trimmed declared aliases, each
\* non-empty and free of those four characters.
C14_AliasConstraint ==
    DoneOnTree =>
        /\ (\E a \in DeclaredAliases : BadAlias(a)) =>
              ~result.ok /\ ErrorType = "invalid_manifest"
        /\ result.ok =>
              /\ DOMAIN result.value.dependencies = {Trim(a) : a \in DeclaredAliases}
              /\ \A k \in DOMAIN result.value.dependencies :
                    k = Trim(k) /\ k # <<>> /\ Range(k) \cap ReservedAliasChars = {}

\* A valid declaration under the alias a.b has been rejected, the message
\* naming the alias and the reserved character.
C14_Witness ==
    /\ DoneOnTree
    /\ ~result.ok
    /\ ErrorType = "invalid_manifest"
    /\ DeclaredAliases = {<<"a", ".", "b">>}
    /\ DependencyDeclaration(Declared(<<"a", ".", "b">>), <<>>).status = "valid"
    /\ NamesText(ErrorMessage, <<"a", ".", "b">>)
    /\ NamesField(ErrorMessage, ".")

\* The result of parse as a function of the text alone.
ParseOf(c) ==
    IF parseToml(c).threw # "none" THEN InvalidToml(parseToml(c))
    ELSE IF ManifestSchemaParse(parseToml(c).value).threw # "none"
    THEN InvalidManifest(ManifestSchemaParse(parseToml(c).value).issues)
    ELSE Normalize(ManifestSchemaParse(parseToml(c).value).value, KnownAgentSet)

\* C15: whatever calls ran before it, a completed call has the result that
\* its text alone determines, parse never lets an exception through, and the
\* known-agent set is {claude-code, codex, opencode} in every state.
C15_StatelessParse ==
    /\ KNOWN_AGENTS = KnownAgentSet
    /\ pc \in {"return", "done"} => rethrown = "none" /\ result = ParseOf(contents)
    /\ pc = "idle" =>
          /\ raw = Undefined /\ manifest = Undefined /\ result = NoResult
          /\ stages = <<>> /\ rethrown = "none"

\* A call on a text that declares a known and an unknown agent has completed
\* with the known one only, the known-agent set unchanged.
C15_Witness ==
    /\ pc = "done"
    /\ contents.syntax = "ok"
    /\ KeysOf(Field(Tree, "agents")) = {"codex", "future-agent"}
    /\ result.ok
    /\ DOMAIN result.value.agents = {"codex"}
    /\ KNOWN_AGENTS = KnownAgentSet

PluginTypeText == <<"c", "l", "a", "u", "d", "e", "-", "p", "l", "u", "g", "i", "n">>

\* The dispatch tests that declaration d satisfies.
DispatchTests(d) ==
    {x \in {"string", "gh", "git", "claude-plugin", "path"} :
        \/ x = "string" /\ d.t = "string"
        \/ x \in {"gh", "git", "path"} /\ Has(d, x)
        \/ x = "claude-plugin" /\ Field(d, "type") = Str(PluginTypeText)}

\* Every accepted declaration became the variant of its shape.
DispatchedByShape ==
    (DoneOnTree /\ result.ok) =>
        \A a \in DeclaredAliases :
            /\ Declared(a).t = "string" => ResultDep(a)["type"] = "registry"
            /\ Has(Declared(a), "gh") => ResultDep(a)["type"] = "github"
            /\ Has(Declared(a), "git") => ResultDep(a)["type"] = "git"
            /\ Field(Declared(a), "type") = Str(PluginTypeText) =>
                  ResultDep(a) = ("marketplace" :> Trim(Declared(a).kv["marketplace"].s))
                                 @@ ("plugin" :> Trim(Declared(a).kv["plugin"].s))
                                 @@ ("type" :> "claude-plugin")
            /\ KeysOf(Declared(a)) = {"path"} =>
                  ResultDep(a) = ("path" :> Trim(Declared(a).kv["path"].s))
                                 @@ ("type" :> "local")

\* C16 as stated: every accepted declaration became the variant of its
\* shape, and satisfies exactly one of the dispatch tests.
C16_ExclusiveDispatch ==
    /\ DispatchedByShape
    /\ (DoneOnTree /\ result.ok) =>
          \A a \in DeclaredAliases : Cardinality(DispatchTests(Declared(a))) = 1

\* C16: every accepted declaration became the variant of its shape and
\* satisfies exactly one of the tests string, gh, git, claude-plugin; the
\* test for path is satisfied alone by a Local declaration, and together
\* with gh or git by a GitHub or Git declaration that has a path, which the
\* order of the tests keeps GitHub or Git, with that path.
C16_DispatchByFirstMatch ==
    /\ DispatchedByShape
    /\ (DoneOnTree /\ result.ok) =>
          \A a \in DeclaredAliases :
              /\ DispatchTests(Declared(a)) \in
                    {{"string"}, {"gh"}, {"git"}, {"claude-plugin"}, {"path"},
                     {"gh", "path"}, {"git", "path"}}
              /\ DispatchTests(Declared(a)) \in {{"gh", "path"}, {"git", "path"}} =>
                    ResultDep(a)["path"] = Trim(Declared(a).kv["path"].s)

\* A declaration with gh and path, which satisfies two tests, has become a
\* GitHub dependency with that path.
C16_Witness ==
    /\ DoneOnTree /\ result.ok
    /\ \E a \in DeclaredAliases :
          /\ DispatchTests(Declared(a)) = {"gh", "path"}
          /\ ResultDep(a)["type"] = "github"
          /\ ResultDep(a)["path"] = <<"p">>

\* C17: normalization cannot fail on a validated manifest: every dependency
\* of the manifest that step 2 hands on passes parseDependency, a call that
\* reached normalization ends ok, and parse never returns invalid_dependency.
C17_NormalizationCannotFail ==
    /\ pc = "step3" =>
          \A a \in DOMAIN Field(manifest, "dependencies").kv :
              parseDependency(a, Field(manifest, "dependencies").kv[a]).ok
    /\ pc \in {"return", "done"} =>
          /\ "normalize" \in Range(stages) => result.ok
          /\ result.ok \/ ErrorType \in {"invalid_toml", "invalid_manifest"}

\* A text with a string and an object dependency has been normalized and
\* accepted.
C17_Witness ==
    /\ DoneOnTree
    /\ stages = <<"toml", "validate", "normalize">>
    /\ result.ok
    /\ \E a, b \in DeclaredAliases :
          /\ Declared(a).t = "string" /\ Declared(b).t = "object"
          /\ DOMAIN result.value.dependencies = {a, b}

====
